---- MODULE Spec2Model ----
(***************************************************************************)
(* A model of mvn/datasets/human36m.py (class MultiViewDataset): the       *)
(* construction of the filtered label table, __getitem__ and evaluate.     *)
(*                                                                         *)
(* Conventions.  Python sequences and numpy arrays are TLA+ sequences;     *)
(* Python positions are 0-based and are kept 0-based as VALUES (an index   *)
(* array holds 0, 1, 2, ...), At(s, i) reads position i.  None is the      *)
(* empty tuple and a present value v is <<v>>.  A name on which the code   *)
(* does string surgery (an action name) is the sequence of its tokens,     *)
(* 'Greeting-2' = <<"Greeting", "-", "2">>, so that endswith('-1'),        *)
(* name[:-2] and '%s-%d' are sequence operations.  Floating point values   *)
(* are integers or exact fractions; np.sqrt is the integer square root.    *)
(***************************************************************************)
EXTENDS Integers, Sequences, FiniteSets, TLC

VARIABLES
    args,       \* the arguments __init__ was called with
    file,       \* what np.load(labels_path).item() returns
    disk,       \* the image paths that do NOT exist (os.path.isfile is False)
    pc,         \* "new" (before __init__), "ready" (constructed), "failed" (__init__ raised)
    error,      \* the exception of the last call, <<type, line>>, or NoError
    self,       \* the dataset object, None until constructed
    indices,    \* __init__'s local list `indices`, as left by the last construction
    sample,     \* what the last __getitem__ returned, None if none did
    getidx,     \* the argument of the last __getitem__ call, None before
    evalargs,   \* the arguments of the last evaluate / evaluate_using_per_pose_error call
    result,     \* what that call returned, None if it raised or none was made
    script      \* the process running collect-bboxes.py, None when it is not run

vars ==
    <<args, file, disk, pc, error, self, indices, sample, getidx, evalargs, result, script>>

None == <<>>
Some(v) == <<v>>
NoError == <<"none", 0>>

\* ------------------------------------------------------------------ bounds
MaxRows == 3
MaxRetain == 2
MaxPred == 3
StoredJoints == 18
TrainStride == 4000

\* ------------------------------------------------------- python and numpy
At(s, i) == s[i + 1]
Range(n) == 0 .. (n - 1)
Contains(list, x) == \E k \in 1..Len(list) : list[k] = x

\* list.index(x): the first position holding x (ValueError when absent: the
\* callers test Contains first).
Index(list, x) ==
    CHOOSE i \in Range(Len(list)) :
        /\ At(list, i) = x
        /\ \A j \in Range(i) : At(list, j) # x

\* np.isin(column, values): the boolean mask of the entries found in values.
IsIn(column, values) ==
    [k \in 1..Len(column) |-> Contains(values, column[k])]

\* Elementwise x & y, ~x and column == v on arrays.
MaskAnd(x, y) == [k \in 1..Len(x) |-> x[k] /\ y[k]]
MaskNot(x) == [k \in 1..Len(x) |-> ~x[k]]
MaskEq(column, v) == [k \in 1..Len(column) |-> column[k] = v]

\* np.nonzero(mask)[0]: the positions where the mask is set, ascending.
Nonzero(mask) ==
    SelectSeq([k \in 1..Len(mask) |-> k - 1], LAMBDA i : At(mask, i))

\* s[::step] for step >= 1.
Slice(s, step) ==
    [k \in 1..((Len(s) + step - 1) \div step) |-> s[(k - 1) * step + 1]]

\* s[:n] for n >= 0.
Prefix(s, n) == SubSeq(s, 1, IF n < Len(s) THEN n ELSE Len(s))

\* a[idx] for an integer index array idx.
Take(a, idx) == [k \in 1..Len(idx) |-> At(a, idx[k])]

RECURSIVE Concatenate(_)
Concatenate(arrays) ==
    IF arrays = <<>> THEN <<>>
    ELSE Head(arrays) \o Concatenate(Tail(arrays))

Column(table, field) == [k \in 1..Len(table) |-> table[k][field]]

\* np.argsort(indexes): a permutation that sorts indexes.  The default sort
\* kind is not stable, so among equal keys any order can come out.
ArgsortResults(indexes) ==
    {p \in [1..Len(indexes) -> Range(Len(indexes))] :
        /\ \A i, j \in 1..Len(indexes) : i # j => p[i] # p[j]
        /\ \A i \in 1..(Len(indexes) - 1) : At(indexes, p[i]) <= At(indexes, p[i + 1])}

\* ------------------------------------------------------------ __init__
SupportedKinds == {"mpii", "human36m", "humaneva", "ama", "totalcap", "mpi3d"}

\* The kinds for which lines 76-103 assign train_subjects and test_subjects.
SubjectsBound(kind) == kind \in {"human36m", "humaneva", "totalcap", "mpi3d"}

TrainSubjectNames(kind) ==
    IF kind = "human36m" THEN <<"S1", "S5", "S6", "S7", "S8">> ELSE <<>>

TestSubjectNames(kind) ==
    CASE kind = "human36m" -> <<"S9", "S11">>
      [] kind = "humaneva" -> <<"S1">>
      [] kind = "totalcap" -> <<"s1">>
      [] kind = "mpi3d"    -> <<"S1", "S2">>

DamagedActions ==
    << <<"Greeting", "-", "2">>, <<"SittingDown", "-", "2">>, <<"Waiting", "-", "1">> >>

SubjectIdx(f, names) ==
    [k \in 1..Len(names) |-> Index(f.subject_names, names[k])]

CheckSplit(a) == a.train \/ a.test

CheckKind(a) == a.kind \in SupportedKinds

\* CheckIgnoreCameras with the upper end of the range let in.
CheckIgnoreCameras_OffByOne(a, f) ==
    \A k \in 1..Len(a.ignore_cameras) :
        a.ignore_cameras[k] \in 0..Len(f.camera_names)

CheckIgnoreCameras(a, f) ==
    \A k \in 1..Len(a.ignore_cameras) :
        a.ignore_cameras[k] \in Range(Len(f.camera_names))

ExcludesDamaged(a) == ~a.with_damaged_actions /\ a.kind = "human36m"

\* list.index finds every name of `names` in `list` (no ValueError).
AllFound(list, names) == \A k \in 1..Len(names) : Contains(list, names[k])

\* TrainIndices with the debug stride forgotten.
TrainIndices_NoStride(a, f) ==
    Nonzero(IsIn(Column(f.table, "subject_idx"), SubjectIdx(f, TrainSubjectNames(a.kind))))

\* Lines 112-114.
TrainIndices(a, f) ==
    Slice(Nonzero(IsIn(Column(f.table, "subject_idx"),
                       SubjectIdx(f, TrainSubjectNames(a.kind)))),
          TrainStride)

\* Lines 120-126: mask_S9 & mask_damaged_actions.
DamagedMask(f) ==
    MaskAnd(MaskEq(Column(f.table, "subject_idx"), Index(f.subject_names, "S9")),
            IsIn(Column(f.table, "action_idx"),
                 [k \in 1..Len(DamagedActions) |-> Index(f.action_names, DamagedActions[k])]))

\* TestMask with the damaged-action exclusion left out.
TestMask_NoExclusion(a, f) ==
    IsIn(Column(f.table, "subject_idx"), SubjectIdx(f, TestSubjectNames(a.kind)))

\* Lines 116-126.
TestMask(a, f) ==
    IF ExcludesDamaged(a)
    THEN MaskAnd(IsIn(Column(f.table, "subject_idx"),
                      SubjectIdx(f, TestSubjectNames(a.kind))),
                 MaskNot(DamagedMask(f)))
    ELSE IsIn(Column(f.table, "subject_idx"), SubjectIdx(f, TestSubjectNames(a.kind)))

TestIndices(a, f) == Slice(Nonzero(TestMask(a, f)), a.retain_every_n_frames_in_test)

Indices(a, f) ==
    (IF a.train THEN <<TrainIndices(a, f)>> ELSE <<>>)
        \o (IF a.test THEN <<TestIndices(a, f)>> ELSE <<>>)

FilteredTable(a, f) ==
    IF a.kind # "ama" THEN Take(f.table, Concatenate(Indices(a, f))) ELSE f.table

NumKeypoints(kind) ==
    CASE kind = "mpii"     -> 16
      [] kind = "humaneva" -> 20
      [] kind = "mpi3d"    -> 28
      [] kind = "totalcap" -> 21
      [] OTHER             -> 17

\* AlignedPredictions with the reordering by `indexes` forgotten.
AlignedPredictions_Unsorted(a, order) ==
    Slice(a.pred_results[1].keypoints_3d, a.retain_every_n_frames_in_test)

\* Lines 156-157, for the permutation np.argsort returned.
AlignedPredictions(a, order) ==
    Slice(Take(a.pred_results[1].keypoints_3d, order), a.retain_every_n_frames_in_test)

\* The first exception __init__ raises, with its line, or NoError.
InitError(a, f, order) ==
    IF ~CheckSplit(a) THEN <<"AssertionError", 55>>
    ELSE IF ~CheckKind(a) THEN <<"AssertionError", 57>>
    ELSE IF ~CheckIgnoreCameras(a, f) THEN <<"AssertionError", 73>>
    ELSE IF a.kind # "ama" /\ ~SubjectsBound(a.kind) THEN <<"UnboundLocalError", 105>>
    ELSE IF a.kind # "ama" /\ ~AllFound(f.subject_names, TrainSubjectNames(a.kind))
         THEN <<"ValueError", 105>>
    ELSE IF a.kind # "ama" /\ ~AllFound(f.subject_names, TestSubjectNames(a.kind))
         THEN <<"ValueError", 106>>
    ELSE IF a.kind # "ama" /\ a.test /\ ExcludesDamaged(a)
            /\ ~AllFound(f.subject_names, <<"S9">>)
         THEN <<"ValueError", 120>>
    ELSE IF a.kind # "ama" /\ a.test /\ ExcludesDamaged(a)
            /\ ~AllFound(f.action_names, DamagedActions)
         THEN <<"ValueError", 123>>
    ELSE IF a.pred_results # None
            /\ Len(AlignedPredictions(a, order)) # Len(FilteredTable(a, f))
         THEN <<"AssertionError", 159>>
    ELSE NoError

\* The object __init__ leaves behind when it raises nothing.
Constructed(a, f, order) ==
    [kind |-> a.kind,
     ignore_cameras |-> a.ignore_cameras,
     labels |-> [f EXCEPT !.table = FilteredTable(a, f)],
     num_keypoints |-> NumKeypoints(a.kind),
     data_root |-> a.data_root,
     image_shape |-> a.image_shape,
     scale_bbox |-> a.scale_bbox,
     norm_image |-> a.norm_image,
     cuboid_side |-> a.cuboid_side,
     undistort_images |-> a.undistort_images,
     crop |-> a.crop,
     keypoints_3d_pred |->
         IF a.pred_results = None THEN None ELSE Some(AlignedPredictions(a, order))]

Construct ==
    /\ pc = "new"
    /\ \E order \in (IF args.pred_results = None THEN {<<>>}
                     ELSE ArgsortResults(args.pred_results[1].indexes)) :
         LET err == InitError(args, file, order) IN
         /\ error' = err
         /\ pc' = IF err = NoError THEN "ready" ELSE "failed"
         /\ self' = IF err = NoError THEN Some(Constructed(args, file, order)) ELSE None
         /\ indices' = IF err = NoError /\ args.kind # "ama"
                       THEN Indices(args, file) ELSE <<>>
    /\ UNCHANGED <<args, file, disk, sample, getidx, evalargs, result, script>>

\* len(dataset)
DatasetLen(ds) == Len(ds.labels.table)

\* ---------------------------------------------------------- __getitem__
\* 'march' in action: the name has the token.
HasToken(name, token) == Contains(name, token)

\* Lines 174-182: the camera is left out before its box is looked at.
CameraIgnored(ds, action, camera_idx) ==
    LET camera_name == At(ds.labels.camera_names, camera_idx) IN
    \/ Contains(ds.ignore_cameras, camera_idx)
    \/ /\ ds.kind = "ama"
       /\ IF HasToken(action, "march") \/ HasToken(action, "squat")
          THEN camera_name = "7"
          ELSE camera_name = "5"

\* bbox_by_camera_tlbr[camera_idx][[1, 0, 3, 2]]
Ltrb(shot, camera_idx) ==
    LET tlbr == At(shot.bbox_by_camera_tlbr, camera_idx)
    IN  <<At(tlbr, 1), At(tlbr, 0), At(tlbr, 3), At(tlbr, 2)>>

\* Line 186: bbox_height = bbox[2] - bbox[0], on the LTRB box.
BboxHeight(bbox) == At(bbox, 2) - At(bbox, 0)

ViewMissing(shot, camera_idx) == BboxHeight(Ltrb(shot, camera_idx)) = 0

\* The cameras whose loop body runs to the appends, in loop order.
SurvivingCameras(ds, shot, action) ==
    SelectSeq([k \in 1..Len(ds.labels.camera_names) |-> k - 1],
              LAMBDA c : ~CameraIgnored(ds, action, c) /\ ~ViewMissing(shot, c))

\* mvn.utils.img.scale_bbox, kept as the request it is given.
ScaleBbox(bbox, scale) == [bbox |-> bbox, scale |-> scale]

\* Lines 195-207.  `self.kind in ["human36m" or "mpii"]` is `in ["human36m"]`.
\* A path is its components, each a token sequence, and the frame number the
\* file name is formatted from.
ImagePath(ds, subject, action, camera_name, frame_idx) ==
    IF ds.kind \in {"human36m"}
    THEN [parts |-> <<ds.data_root, subject, action,
                      IF ds.undistort_images
                      THEN <<"imageSequence", "-undistorted">> ELSE <<"imageSequence">>,
                      <<camera_name>>, <<"img_", "%06d", ".jpg">> >>,
          frame |-> frame_idx + 1]
    ELSE IF ds.kind = "ama"
    THEN IF action \in {<<"D", "_", "march">>, <<"D", "_", "squat">>,
                        <<"I", "_", "march">>, <<"I", "_", "squat">>}
         THEN [parts |-> <<ds.data_root, action, <<"images">>,
                           <<"Camera", camera_name, "_", "%04d", ".jpg">> >>,
               frame |-> frame_idx]
         ELSE [parts |-> <<ds.data_root, action, <<"images">>,
                           <<"Image", camera_name, "_", "%04d", ".png">> >>,
               frame |-> frame_idx]
    ELSE IF ds.kind = "totalcap"
    THEN [parts |-> <<ds.data_root, subject, <<"Images">>, action, <<"cam", camera_name>>,
                      <<"frm", "%04d", "_cam", camera_name, ".jpg">> >>,
          frame |-> frame_idx]
    ELSE IF ds.kind = "mpi3d"
    THEN [parts |-> <<ds.data_root, subject, action, <<"Images">>, <<"cam", camera_name>>,
                      <<"frm", "%06d", "_cam", camera_name, ".jpg">> >>,
          frame |-> frame_idx]
    ELSE [parts |-> <<ds.data_root, subject, <<"imageSequence">>, action, <<camera_name>>,
                      <<"img_", "%06d", ".jpg">> >>,
          frame |-> frame_idx]

\* The subject name of a shot; for 'ama' the variable is never bound nor read.
SubjectOf(ds, shot) ==
    IF ds.kind # "ama" THEN <<At(ds.labels.subject_names, shot.subject_idx)>> ELSE None

ShotPath(ds, shot, camera_idx) ==
    ImagePath(ds, SubjectOf(ds, shot), At(ds.labels.action_names, shot.action_idx),
              At(ds.labels.camera_names, camera_idx), shot.frame_idx)

\* Lines 209-232: the image as read, then cropped, resized and normalized.
LoadImage(ds, path, bbox) ==
    [path |-> path,
     crop |-> IF ds.crop THEN Some(bbox) ELSE None,
     resize |-> ds.image_shape,
     normalized |-> ds.norm_image]

\* image.shape[:2] of the (possibly cropped) image before the resize.
ShapeBeforeResize(ds, path, bbox) ==
    [path |-> path, crop |-> IF ds.crop THEN Some(bbox) ELSE None]

\* Lines 212-227: the Camera built from the stored parameters and told of the
\* crop and the resize.
LoadCamera(ds, shot, camera_idx, path, bbox) ==
    [name |-> At(ds.labels.camera_names, camera_idx),
     params |-> IF ds.kind = "ama"
                THEN At(At(ds.labels.cameras, shot.action_idx), camera_idx)
                ELSE At(At(ds.labels.cameras, shot.subject_idx), camera_idx),
     update_after_crop |-> IF ds.crop THEN Some(bbox) ELSE None,
     update_after_resize |->
         IF ds.image_shape # None
         THEN Some(<<ShapeBeforeResize(ds, path, bbox), ds.image_shape[1]>>)
         ELSE None]

\* Camera.projection of a camera, kept as the camera it is read from.
Projection(camera) == [of |-> camera]

\* Lines 242-244: the first num_keypoints joints, each padded with confidence 1.
Keypoints3d(ds, shot) ==
    LET kept == Prefix(shot.keypoints, ds.num_keypoints)
    IN  [j \in 1..Len(kept) |-> kept[j] \o <<1>>]

\* Lines 247-251.
Cuboid(ds, keypoints_3d) ==
    LET base_point == SubSeq(At(keypoints_3d, 6), 1, 3)
        sides == <<ds.cuboid_side, ds.cuboid_side, ds.cuboid_side>>
    IN  [position |-> [d \in 1..3 |-> base_point[d] - (sides[d] \div 2)],
         sides |-> sides]

\* A box that got past line 187 with its top equal to its bottom.  When the
\* image is cropped to it, what crop_image, resize_image and normalize_image
\* (not in this file) do with the empty crop is not known here: they may
\* return or raise.
EmptyCrop(bbox) == At(bbox, 3) - At(bbox, 1) = 0

\* The first exception __getitem__ raises, or NoError; external_ok says
\* whether the image utilities get through an empty crop.
GetItemError(ds, missing, idx, external_ok) ==
    IF idx \notin Range(DatasetLen(ds)) THEN <<"IndexError", 166>>
    ELSE LET shot == At(ds.labels.table, idx)
             action == At(ds.labels.action_names, shot.action_idx)
             cams == SurvivingCameras(ds, shot, action)
         IN  IF \E k \in 1..Len(cams) : ShotPath(ds, shot, cams[k]) \in missing
             THEN <<"AssertionError", 208>>
             ELSE IF ~external_ok /\ ds.crop
                     /\ \E k \in 1..Len(cams) : EmptyCrop(Ltrb(shot, cams[k]))
             THEN <<"ExternalError", 220>>
             ELSE IF ds.kind = "human36m" /\ Len(Keypoints3d(ds, shot)) < 7
             THEN <<"IndexError", 248>>
             ELSE NoError

GetItemSample(ds, idx) ==
    LET shot == At(ds.labels.table, idx)
        action == At(ds.labels.action_names, shot.action_idx)
        cams == SurvivingCameras(ds, shot, action)
        bbox(c) == ScaleBbox(Ltrb(shot, c), ds.scale_bbox)
        path(c) == ShotPath(ds, shot, c)
        camera(c) == LoadCamera(ds, shot, c, path(c), bbox(c))
        keypoints_3d == Keypoints3d(ds, shot)
    IN  [images |-> [k \in 1..Len(cams) |-> LoadImage(ds, path(cams[k]), bbox(cams[k]))],
         detections |-> [k \in 1..Len(cams) |-> bbox(cams[k])],
         cameras |-> [k \in 1..Len(cams) |-> camera(cams[k])],
         proj_matrices |-> [k \in 1..Len(cams) |-> Projection(camera(cams[k]))],
         image_shapes_before_resize |->
             IF ds.image_shape # None
             THEN [k \in 1..Len(cams) |-> ShapeBeforeResize(ds, path(cams[k]), bbox(cams[k]))]
             ELSE <<>>,
         \* the keys of the defaultdict: a per-camera key exists once appended to
         keys |-> {"keypoints_3d", "indexes", "action", "frame_idx"}
                  \cup (IF cams # <<>>
                        THEN {"images", "detections", "cameras", "proj_matrices"} ELSE {})
                  \cup (IF cams # <<>> /\ ds.image_shape # None
                        THEN {"image_shapes_before_resize"} ELSE {})
                  \cup (IF ds.kind = "human36m" THEN {"cuboids"} ELSE {})
                  \cup (IF ds.kind # "ama" THEN {"subject"} ELSE {})
                  \cup (IF ds.keypoints_3d_pred # None THEN {"pred_keypoints_3d"} ELSE {}),
         keypoints_3d |-> keypoints_3d,
         cuboids |-> IF ds.kind = "human36m" THEN Some(Cuboid(ds, keypoints_3d)) ELSE None,
         indexes |-> idx,
         subject |-> SubjectOf(ds, shot),
         action |-> action,
         frame_idx |-> shot.frame_idx,
         pred_keypoints_3d |->
             IF ds.keypoints_3d_pred # None
             THEN Some(At(ds.keypoints_3d_pred[1], idx)) ELSE None]

GetItem ==
    /\ pc = "ready"
    /\ \E idx \in 0..DatasetLen(self[1]), external_ok \in BOOLEAN :
         LET err == GetItemError(self[1], disk, idx, external_ok) IN
         /\ getidx' = Some(idx)
         /\ error' = err
         /\ sample' = IF err = NoError THEN Some(GetItemSample(self[1], idx)) ELSE None
    /\ UNCHANGED <<args, file, disk, pc, self, indices, evalargs, result, script>>

\* ------------------------------------------------------------- evaluate
\* Floating point values are exact fractions <<numerator, denominator>> in
\* lowest terms; NaN (0.0 / 0) is <<0, 0>>.
RECURSIVE GCD(_, _)
GCD(a, b) == IF b = 0 THEN a ELSE GCD(b, a % b)

NaN == <<0, 0>>
Zero == <<0, 1>>
Frac(n, d) == IF d = 0 THEN NaN ELSE <<n \div GCD(n, d), d \div GCD(n, d)>>
FracAdd(x, y) == Frac(x[1] * y[2] + y[1] * x[2], x[2] * y[2])
FracDiv(x, k) == Frac(x[1], x[2] * k)

RECURSIVE FracSum(_)
FracSum(xs) == IF xs = <<>> THEN Zero ELSE FracAdd(Head(xs), FracSum(Tail(xs)))

RECURSIVE IntSum(_)
IntSum(xs) == IF xs = <<>> THEN 0 ELSE Head(xs) + IntSum(Tail(xs))

\* np.sqrt on an integer, rounded down.
ISqrt(n) == CHOOSE r \in 0..n : r * r <= n /\ n < (r + 1) * (r + 1)

\* Two array lengths numpy can broadcast against each other, and the result.
Broadcastable(m, n) == m = n \/ m = 1 \/ n = 1
BroadcastLen(m, n) == IF m = 1 THEN n ELSE m
BroadcastAt(a, i) == IF Len(a) = 1 THEN a[1] ELSE a[i]

\* pose[joints] for a list of joint positions.
JointsAt(pose, joints) == [k \in 1..Len(joints) |-> At(pose, joints[k])]

MaxOf(joints) ==
    CHOOSE m \in {joints[k] : k \in 1..Len(joints)} :
        \A k \in 1..Len(joints) : joints[k] <= m

\* sqrt(((g - p) ** 2).sum(-1)).mean(): the mean over the joints of the
\* distance between the two poses' joints.
PoseError(g, p) ==
    Frac(IntSum([j \in 1..Len(g) |->
                    ISqrt((g[j][1] - p[j][1]) * (g[j][1] - p[j][1])
                          + (g[j][2] - p[j][2]) * (g[j][2] - p[j][2])
                          + (g[j][3] - p[j][3]) * (g[j][3] - p[j][3]))]),
         Len(g))

\* pose - pose[root_index:root_index + 1]
Relative(pose, root_index) ==
    [j \in 1..Len(pose) |->
        [d \in 1..3 |-> pose[j][d] - At(pose, root_index)[d]]]

\* Line 312, row k of keypoints_gt.
KeypointsGt(ds, k) == Prefix(ds.labels.table[k].keypoints, ds.num_keypoints)

\* The number of joints of keypoints_gt (its shape[1]).
GtJoints(ds) ==
    IF ds.num_keypoints < ds.labels.keypoints_joints
    THEN ds.num_keypoints ELSE ds.labels.keypoints_joints

Transfer(o) == o.transfer_cmu_to_human36m \/ o.transfer_human36m_to_human36m

Human36mJoints == <<10, 11, 15, 14, 1, 4>>
CmuJoints(o) ==
    IF o.transfer_human36m_to_human36m
    THEN <<10, 11, 15, 14, 1, 4>> ELSE <<10, 8, 9, 7, 14, 13>>

H36mEvalIdx == <<4, 1, 13, 12, 5, 0, 6, 8>>
HevaEvalIdx == <<11, 15, 2, 6, 13, 17, 1, 0>>

\* Lines 318-326: row k of keypoints_gt and row i of keypoints_3d_predicted
\* after the transfer.
GtTransferred(ds, o, k) ==
    IF Transfer(o) THEN JointsAt(KeypointsGt(ds, k), Human36mJoints)
    ELSE KeypointsGt(ds, k)

PredTransferred(o, i) ==
    IF Transfer(o) THEN JointsAt(o.keypoints_3d_predicted[i], CmuJoints(o))
    ELSE o.keypoints_3d_predicted[i]

GtJointsTransferred(ds, o) == IF Transfer(o) THEN Len(Human36mJoints) ELSE GtJoints(ds)
PredJointsTransferred(o) == IF Transfer(o) THEN Len(CmuJoints(o)) ELSE o.pred_joints

\* Lines 328-345: the joints that are compared.
GtCompared(ds, pose) == IF ds.kind = "humaneva" THEN JointsAt(pose, HevaEvalIdx) ELSE pose
PredCompared(ds, pose) == IF ds.kind = "humaneva" THEN JointsAt(pose, H36mEvalIdx) ELSE pose

\* Line 348: predicted pose i against the ground truth row idx[i].
PerPoseError(ds, o) ==
    [i \in 1..Len(o.idx) |->
        PoseError(GtCompared(ds, GtTransferred(ds, o, o.idx[i] + 1)),
                  PredCompared(ds, PredTransferred(o, i)))]

\* Lines 351-354.
RootIndex(ds, o) ==
    IF ~Transfer(o) THEN (IF ds.kind = "mpii" THEN 6 ELSE 6) ELSE 0

\* Line 356, row k.
KeypointsGtRelative(ds, o, k) == Relative(GtTransferred(ds, o, k), RootIndex(ds, o))

\* The predicted poses left as they are, not made relative to the root.
KeypointsPredictedRelative_NoRoot(ds, o, i) == PredTransferred(o, i)

\* Line 357, row i.
KeypointsPredictedRelative(ds, o, i) == Relative(PredTransferred(o, i), RootIndex(ds, o))

\* Lines 359-362: the two relative arrays are subtracted as they are, row by
\* row under numpy's broadcasting; idx is not used.
PerPoseErrorRelative(ds, o) ==
    [i \in 1..BroadcastLen(DatasetLen(ds), Len(o.keypoints_3d_predicted)) |->
        PoseError(
            GtCompared(ds, KeypointsGtRelative(ds, o,
                               IF DatasetLen(ds) = 1 THEN 1 ELSE i)),
            PredCompared(ds, KeypointsPredictedRelative(ds, o,
                               IF Len(o.keypoints_3d_predicted) = 1 THEN 1 ELSE i)))]

\* ---- evaluate_by_actions, on score entries [total_loss, frame_count]
Score(total_loss, frame_count) == [total_loss |-> total_loss, frame_count |-> frame_count]

DictSet(d, key, value) ==
    [x \in (DOMAIN d) \cup {key} |-> IF x = key THEN value ELSE d[x]]
DictDel(d, key) == [x \in (DOMAIN d) \ {key} |-> d[x]]

\* per_pose_error[mask] for a boolean mask of the array's length.
Masked(per_pose_error, mask) ==
    LET kept == SelectSeq([k \in 1..Len(mask) |-> k], LAMBDA k : mask[k])
    IN  [k \in 1..Len(kept) |-> per_pose_error[kept[k]]]

\* Line 276: (table['action_idx'] == action_idx) & mask, broadcast.
ActionMask(ds, action_idx, mask) ==
    [i \in 1..BroadcastLen(DatasetLen(ds), Len(mask)) |->
        /\ BroadcastAt(ds.labels.table, i).action_idx = action_idx
        /\ BroadcastAt(mask, i)]

\* Lines 275-280: the loop over the action names, from position action_idx on.
RECURSIVE ScoreActions(_, _, _, _, _)
ScoreActions(ds, per_pose_error, mask, action_scores, action_idx) ==
    IF action_idx >= Len(ds.labels.action_names) THEN action_scores
    ELSE LET action_per_pose_error ==
                 Masked(per_pose_error, ActionMask(ds, action_idx, mask))
         IN  ScoreActions(ds, per_pose_error, mask,
                 DictSet(action_scores, At(ds.labels.action_names, action_idx),
                         Score(FracSum(action_per_pose_error), Len(action_per_pose_error))),
                 action_idx + 1)

\* name.endswith('-1')
EndsWithTrial1(name) ==
    Len(name) >= 2 /\ name[Len(name) - 1] = "-" /\ name[Len(name)] = "1"

\* Lines 282-283: [name[:-2] for name in action_names if name.endswith('-1')]
ActionNamesWithoutTrials(ds) ==
    LET with_trial == SelectSeq(ds.labels.action_names, EndsWithTrial1)
    IN  [k \in 1..Len(with_trial) |-> SubSeq(with_trial[k], 1, Len(with_trial[k]) - 2)]

\* '%s-%d' % (action_name_without_trial, trial)
TrialName(action_name_without_trial, trial) ==
    action_name_without_trial \o <<"-", IF trial = 1 THEN "1" ELSE "2">>

\* The merge with the trial loop stopping after trial 1.
RECURSIVE MergeTrials_FirstTrialOnly(_, _)
MergeTrials_FirstTrialOnly(st, names) ==
    IF names = <<>> \/ ~st.ok THEN st
    ELSE IF TrialName(Head(names), 1) \notin DOMAIN st.scores
         THEN [st EXCEPT !.ok = FALSE]
         ELSE MergeTrials_FirstTrialOnly(
                [ok |-> TRUE,
                 scores |-> DictSet(DictDel(st.scores, TrialName(Head(names), 1)),
                                    Head(names), st.scores[TrialName(Head(names), 1)])],
                Tail(names))

\* Lines 285-294 for the base names `names`, in order: st.ok turns FALSE at
\* the first KeyError (a trial entry that is not, or no longer, there).
RECURSIVE MergeTrials(_, _)
MergeTrials(st, names) ==
    IF names = <<>> \/ ~st.ok THEN st
    ELSE LET name1 == TrialName(Head(names), 1)
             name2 == TrialName(Head(names), 2)
         IN  IF name1 \notin DOMAIN st.scores
             THEN [st EXCEPT !.ok = FALSE]
             ELSE IF name2 \notin DOMAIN DictDel(st.scores, name1)
             THEN [ok |-> FALSE, scores |-> DictDel(st.scores, name1)]
             ELSE MergeTrials(
                    [ok |-> TRUE,
                     scores |->
                        DictSet(DictDel(DictDel(st.scores, name1), name2), Head(names),
                                Score(FracAdd(FracAdd(Zero, st.scores[name1].total_loss),
                                              st.scores[name2].total_loss),
                                      st.scores[name1].frame_count
                                          + st.scores[name2].frame_count))],
                    Tail(names))

\* Lines 271-294: the score entries before the final division.
ActionScores(ds, per_pose_error, mask) ==
    MergeTrials(
        [ok |-> TRUE,
         scores |->
            ScoreActions(ds, per_pose_error, mask,
                [x \in {<<"Average">>} |->
                    Score(FracSum(Masked(per_pose_error, mask)),
                          Len(SelectSeq(mask, LAMBDA b : b)))],
                0)],
        ActionNamesWithoutTrials(ds))

\* The outcome of a call: the exception it raises, or NoError and its value.
Raised(err) == [err |-> err, val |-> None]
Returned(val) == [err |-> NoError, val |-> Some(val)]

\* Lines 296-298: the final division, unless the merge raised KeyError.
ActionAverages(merged) ==
    IF ~merged.ok THEN Raised(<<"KeyError", 290>>)
    ELSE Returned([k \in DOMAIN merged.scores |->
                      FracDiv(merged.scores[k].total_loss, merged.scores[k].frame_count)])

\* evaluate_by_actions(self, per_pose_error, mask)
EvaluateByActions(ds, per_pose_error, mask) ==
    IF Len(mask) # Len(per_pose_error) THEN Raised(<<"IndexError", 272>>)
    ELSE IF ds.labels.action_names # <<>>
            /\ ~Broadcastable(DatasetLen(ds), Len(mask))
         THEN Raised(<<"ValueError", 276>>)
    ELSE IF ds.labels.action_names # <<>>
            /\ BroadcastLen(DatasetLen(ds), Len(mask)) # Len(per_pose_error)
         THEN Raised(<<"IndexError", 277>>)
    ELSE ActionAverages(ActionScores(ds, per_pose_error, mask))

\* Line 305.
SubjectMask(ds, subject_idx) ==
    [k \in 1..DatasetLen(ds) |-> ds.labels.table[k].subject_idx = subject_idx]

Ones(per_pose_error) == [k \in 1..Len(per_pose_error) |-> TRUE]

\* Lines 300-309 given the outcomes of the calls of evaluate_by_actions,
\* by_subject[1] without a mask and by_subject[s + 2] for subject s: the first
\* exception, or subject_scores with the later of two equal names winning.
SubjectScores(ds, by_subject) ==
    IF \E s \in 1..Len(by_subject) : by_subject[s].err # NoError
    THEN Raised(by_subject[CHOOSE s \in 1..Len(by_subject) :
                               /\ by_subject[s].err # NoError
                               /\ \A t \in 1..(s - 1) : by_subject[t].err = NoError].err)
    ELSE Returned(
           [key \in {"Average"} \cup {ds.labels.subject_names[k] :
                                         k \in 1..Len(ds.labels.subject_names)} |->
               IF \E k \in 1..Len(ds.labels.subject_names) : ds.labels.subject_names[k] = key
               THEN by_subject[1 + CHOOSE k \in 1..Len(ds.labels.subject_names) :
                                      /\ ds.labels.subject_names[k] = key
                                      /\ \A m \in 1..Len(ds.labels.subject_names) :
                                             ds.labels.subject_names[m] = key => m <= k].val[1]
               ELSE by_subject[1].val[1]])

\* evaluate_using_per_pose_error(self, per_pose_error, split_by_subject)
EvaluateUsingPerPoseErrorOutcome(ds, per_pose_error) ==
    SubjectScores(ds,
        [s \in 1..(Len(ds.labels.subject_names) + 1) |->
            IF s = 1 THEN EvaluateByActions(ds, per_pose_error, Ones(per_pose_error))
            ELSE EvaluateByActions(ds, per_pose_error, SubjectMask(ds, s - 2))])

\* Lines 364-369: the pair evaluate returns, with the two per-pose arrays it
\* was computed from.
EvaluateReturn(per_pose_error, per_pose_error_relative, absolute, relative) ==
    IF absolute.err # NoError THEN Raised(absolute.err)
    ELSE IF relative.err # NoError THEN Raised(relative.err)
    ELSE Returned([score |-> Some(relative.val[1]["Average"][<<"Average">>]),
                   result |-> [per_pose_error |-> absolute.val[1],
                               per_pose_error_relative |-> relative.val[1]],
                   per_pose_error |-> per_pose_error,
                   per_pose_error_relative |-> per_pose_error_relative])

EvaluateErrors(ds, per_pose_error, per_pose_error_relative) ==
    EvaluateReturn(per_pose_error, per_pose_error_relative,
                   EvaluateUsingPerPoseErrorOutcome(ds, per_pose_error),
                   EvaluateUsingPerPoseErrorOutcome(ds, per_pose_error_relative))

\* evaluate(self, keypoints_3d_predicted, idx, ...), lines 311-369, with the
\* exceptions of the array operations in the order they are reached.
EvaluateOutcome(ds, o) ==
    IF Transfer(o) /\ GtJoints(ds) <= MaxOf(Human36mJoints)
    THEN Raised(<<"IndexError", 325>>)
    ELSE IF Transfer(o) /\ o.pred_joints <= MaxOf(CmuJoints(o))
         THEN Raised(<<"IndexError", 326>>)
    ELSE IF ds.kind = "humaneva" /\ PredJointsTransferred(o) <= MaxOf(H36mEvalIdx)
         THEN Raised(<<"IndexError", 341>>)
    ELSE IF ds.kind = "humaneva" /\ GtJointsTransferred(ds, o) <= MaxOf(HevaEvalIdx)
         THEN Raised(<<"IndexError", 342>>)
    ELSE IF \E i \in 1..Len(o.idx) : o.idx[i] \notin Range(DatasetLen(ds))
         THEN Raised(<<"IndexError", 348>>)
    ELSE IF ds.kind # "humaneva"
            /\ ~Broadcastable(GtJointsTransferred(ds, o), PredJointsTransferred(o))
         THEN Raised(<<"ValueError", 348>>)
    ELSE IF ~Broadcastable(Len(o.idx), Len(o.keypoints_3d_predicted))
         THEN Raised(<<"ValueError", 348>>)
    ELSE IF ~Broadcastable(DatasetLen(ds), Len(o.keypoints_3d_predicted))
         THEN Raised(<<"ValueError", IF ds.kind = "humaneva" THEN 360 ELSE 362>>)
    ELSE EvaluateErrors(ds, PerPoseError(ds, o), PerPoseErrorRelative(ds, o))

\* ---------------------------------------------------------------- inputs
\* A stored pose: StoredJoints joints of three coordinates; s sets the shape
\* and o translates every joint by (o, 0, o).
Pose(s, o) == [j \in 1..StoredJoints |-> <<((s * j) % 4) + o, (s + j) % 3, o>>]

\* The (shape, offset) pairs of the poses of the tables and the predictions.
PoseIds == {<<1, 0>>, <<2, 0>>, <<1, 1>>}

\* A bounding box (top, left, bottom, right) with a positive height and width.
FullBox == <<0, 0, 4, 2>>

Row(subject_idx, action_idx, frame_idx, keypoints, boxes) ==
    [subject_idx |-> subject_idx, action_idx |-> action_idx, frame_idx |-> frame_idx,
     keypoints |-> keypoints, bbox_by_camera_tlbr |-> boxes]

\* labels['cameras']: one raw parameter set per (subject or action, camera).
CameraTable(n, n_cameras) ==
    [i \in 1..n |-> [c \in 1..n_cameras |-> [owner |-> i - 1, camera |-> c - 1]]]

LabelsFile(camera_names, subject_names, action_names, table) ==
    [camera_names |-> camera_names, subject_names |-> subject_names,
     action_names |-> action_names, table |-> table,
     keypoints_joints |-> StoredJoints,
     cameras |-> CameraTable(IF Len(subject_names) > Len(action_names)
                             THEN Len(subject_names) ELSE Len(action_names),
                             Len(camera_names))]

H36MCameras == <<"54138969", "55011271", "58860488">>
H36MSubjects == <<"S1", "S5", "S6", "S7", "S8", "S9", "S11">>
H36MActions ==
    << <<"Greeting", "-", "1">>, <<"Greeting", "-", "2">>,
       <<"SittingDown", "-", "1">>, <<"SittingDown", "-", "2">>,
       <<"Waiting", "-", "1">>, <<"Waiting", "-", "2">>,
       <<"Walking", "-", "1">>, <<"Walking", "-", "2">> >>

\* Name tables of a labels file of the other subject-partitioned datasets.
OtherCameras == <<"1", "2">>
OtherSubjects == <<"S1", "S2", "s1">>
OtherActions == << <<"acting">>, <<"walking">> >>

\* A table whose k-th row is of the k-th (subject name, action name) pair;
\* frames are numbered in table order and poses alternate.
MkTable(subject_names, action_names, n_cameras, pairs) ==
    [k \in 1..Len(pairs) |->
        Row(Index(subject_names, pairs[k][1]), Index(action_names, pairs[k][2]), k - 1,
            Pose(1 + (k % 2), 0), [c \in 1..n_cameras |-> FullBox])]

SeqsUpTo(S, n) == UNION {[1..m -> S] : m \in 0..n}

H36MRowKinds ==
    { <<"S1", <<"Walking", "-", "1">> >>, <<"S9", <<"Greeting", "-", "2">> >>,
      <<"S9", <<"Walking", "-", "1">> >>, <<"S11", <<"Greeting", "-", "2">> >> }

OtherRowKinds ==
    { <<"S1", <<"acting">> >>, <<"s1", <<"walking">> >> }

H36MFile(pairs) ==
    LabelsFile(H36MCameras, H36MSubjects, H36MActions,
               MkTable(H36MSubjects, H36MActions, Len(H36MCameras), pairs))

OtherFile(pairs) ==
    LabelsFile(OtherCameras, OtherSubjects, OtherActions,
               MkTable(OtherSubjects, OtherActions, Len(OtherCameras), pairs))

\* A long run of one row kind followed by a short tail: the tables on which a
\* stride of TrainStride keeps more than the first row.
Bulk(n, pair) == [k \in 1..n |-> pair]

BigTails ==
    [1..2 -> { <<"S1", <<"Walking", "-", "1">> >>, <<"S9", <<"Walking", "-", "1">> >> }]

AllKinds == SupportedKinds \cup {"cmu"}

DefaultArgs ==
    [data_root |-> <<"processed">>, pred_results |-> None,
     image_shape |-> Some(<<256, 256>>), train |-> FALSE, test |-> FALSE,
     retain_every_n_frames_in_test |-> 1, with_damaged_actions |-> FALSE,
     cuboid_side |-> 2000, scale_bbox |-> <<3, 2>>, norm_image |-> TRUE,
     kind |-> "mpii", undistort_images |-> FALSE, ignore_cameras |-> <<>>,
     crop |-> TRUE]

SplitArgs(kind, train, test, retain, with_damaged) ==
    [DefaultArgs EXCEPT !.kind = kind, !.train = train, !.test = test,
                        !.retain_every_n_frames_in_test = retain,
                        !.with_damaged_actions = with_damaged]

\* The (train, test) flags that request a split.
Splits == {split \in BOOLEAN \X BOOLEAN : split[1] \/ split[2]}

\* The calls of SpecIndex: every supported kind, split and stride on short
\* tables of a labels file the kind can be used with, (the principal
\* kind on the long tables is StartBig).
IndexScenarios ==
    {[a |-> SplitArgs(kind, split[1], split[2], retain, wd), f |-> H36MFile(pairs), d |-> {}] :
        kind \in {"human36m", "mpii", "humaneva", "totalcap"},
        split \in Splits,
        retain \in 1..MaxRetain, wd \in BOOLEAN,
        pairs \in SeqsUpTo(H36MRowKinds, MaxRows)}
    \cup
    {[a |-> SplitArgs(kind, split[1], split[2], retain, wd), f |-> OtherFile(pairs), d |-> {}] :
        kind \in {"humaneva", "totalcap", "mpi3d", "ama"},
        split \in Splits,
        retain \in 1..MaxRetain, wd \in BOOLEAN,
        pairs \in SeqsUpTo(OtherRowKinds, MaxRows)}

Fresh ==
    /\ pc = "new"
    /\ error = NoError
    /\ self = None
    /\ indices = <<>>
    /\ sample = None
    /\ getidx = None
    /\ evalargs = None
    /\ result = None
    /\ script = None

Start(scenarios) ==
    /\ \E sc \in scenarios : args = sc.a /\ file = sc.f /\ disk = sc.d
    /\ Fresh

StartBig ==
    /\ \E test \in BOOLEAN, retain \in 1..MaxRetain,
          n \in {TrainStride - 1, TrainStride}, tail \in BigTails :
         /\ args = SplitArgs("human36m", TRUE, test, retain, FALSE)
         /\ file = H36MFile(Bulk(n, <<"S1", <<"Walking", "-", "1">> >>) \o tail)
         /\ disk = {}
    /\ Fresh

InitIndex == Start(IndexScenarios) \/ StartBig

NextIndex == Construct \/ GetItem

SpecIndex == InitIndex /\ [][NextIndex]_vars

\* A predicted pose of 17 joints; PredPose(1), PredPose(2), ... are the A, B,
\* C of a predictions file.
PredPose(k) == Prefix(Pose(k, 0), 17)

\* The `indexes` arrays of a predictions file of n entries: the permutations
\* of 0..n-1 and the array of equal keys.
IndexArrays(n) ==
    {p \in [1..n -> Range(n)] : \A i, j \in 1..n : i # j => p[i] # p[j]}
    \cup {[k \in 1..n |-> 0]}

PredFiles ==
    {[keypoints_3d |-> [k \in 1..n |-> PredPose(k)], indexes |-> indexes] :
        n \in 0..MaxPred, indexes \in UNION {IndexArrays(m) : m \in 0..MaxPred}}

PredOptions ==
    {None} \cup {Some(pf) : pf \in {x \in PredFiles : Len(x.indexes) = Len(x.keypoints_3d)}}

\* The tables of SpecConfig: runs of test rows, and one mixed table.
ConfigPairs ==
    {Bulk(n, <<"S9", <<"Walking", "-", "1">> >>) : n \in 0..MaxRows}
    \cup { << <<"S1", <<"Walking", "-", "1">> >>, <<"S9", <<"Greeting", "-", "2">> >>,
              <<"S11", <<"Walking", "-", "1">> >> >> }

\* The calls of SpecConfig: every kind (a seventh, unsupported one included),
\* every setting of the split flags, with and without a predictions file, and
\* camera-ignore lists in and out of range.
ConfigScenarios ==
    {[a |-> [SplitArgs(kind, split[1], split[2], retain, FALSE)
                 EXCEPT !.pred_results = pred],
      f |-> H36MFile(pairs), d |-> {}] :
        kind \in AllKinds, split \in BOOLEAN \X BOOLEAN, retain \in 1..MaxRetain,
        pred \in PredOptions, pairs \in ConfigPairs}
    \cup
    {[a |-> [SplitArgs(kind, split[1], split[2], 1, FALSE)
                 EXCEPT !.ignore_cameras = ignore],
      f |-> H36MFile(Bulk(2, <<"S9", <<"Walking", "-", "1">> >>)), d |-> {}] :
        kind \in AllKinds, split \in BOOLEAN \X BOOLEAN,
        ignore \in {<<0>>, <<1, 1>>, <<Len(H36MCameras)>>, <<0, -1>>}}

InitConfig == Start(ConfigScenarios)

SpecConfig == InitConfig /\ [][NextIndex]_vars

\* The boxes (top, left, bottom, right) of SpecSample: a full one, the empty
\* one, one of no height and one of no width.
BoxKinds == {FullBox, <<0, 0, 0, 0>>, <<0, 0, 0, 2>>, <<0, 0, 4, 0>>}

AmaCameras == <<"1", "5", "7">>
AmaActions == << <<"D", "_", "march">>, <<"crane">> >>

\* A table with one row per (subject name, action name) pair, every row with
\* the boxes `boxes`.
BoxTable(subject_names, action_names, pairs, boxes) ==
    [k \in 1..Len(pairs) |->
        Row(IF subject_names = <<>> THEN 0 ELSE Index(subject_names, pairs[k][1]),
            Index(action_names, pairs[k][2]), k - 1, Pose(1, 0), boxes)]

SampleFiles(family, boxes) ==
    CASE family = "h36m" ->
           LabelsFile(H36MCameras, H36MSubjects, H36MActions,
                      BoxTable(H36MSubjects, H36MActions,
                               << <<"S1", <<"Walking", "-", "1">> >>,
                                  <<"S9", <<"Walking", "-", "1">> >> >>, boxes))
      [] family = "other" ->
           LabelsFile(OtherCameras, OtherSubjects, OtherActions,
                      BoxTable(OtherSubjects, OtherActions,
                               << <<"S1", <<"acting">> >>, <<"s1", <<"walking">> >> >>, boxes))
      [] family = "ama" ->
           LabelsFile(AmaCameras, <<>>, AmaActions,
                      BoxTable(<<>>, AmaActions,
                               << <<"", <<"D", "_", "march">> >>, <<"", <<"crane">> >> >>,
                               boxes))

FamilyKinds ==
    { <<"h36m", "human36m">>, <<"h36m", "humaneva">>, <<"other", "totalcap">>,
      <<"other", "mpi3d">>, <<"ama", "ama">> }

FamilyCameras(family) ==
    CASE family = "h36m" -> H36MCameras
      [] family = "other" -> OtherCameras
      [] family = "ama" -> AmaCameras

SampleArgs(kind, ignore, processed) ==
    [DefaultArgs EXCEPT !.kind = kind, !.test = TRUE, !.ignore_cameras = ignore,
                        !.crop = processed, !.undistort_images = processed,
                        !.image_shape = IF processed THEN Some(<<256, 256>>) ELSE None]

\* The image files of the first camera for frames 0 and 1, as each kind names
\* them: the files that may be absent in SpecSample.
FirstCameraPaths(a, f) ==
    {ImagePath(a, IF f.subject_names = <<>> THEN None
                  ELSE <<At(f.subject_names, f.table[k].subject_idx)>>,
               At(f.action_names, f.table[k].action_idx),
               f.camera_names[1], f.table[k].frame_idx) : k \in 1..Len(f.table)}

\* The calls of SpecSample: one labels family per kind, every assignment of
\* box kinds to the cameras, some cameras ignored, images processed or not,
\* all image files present or those of the first camera absent.
SampleScenarios ==
    UNION {
      {[a |-> SampleArgs(fk[2], ignore, processed),
        f |-> SampleFiles(fk[1], boxes),
        d |-> IF present THEN {}
              ELSE FirstCameraPaths(SampleArgs(fk[2], ignore, processed),
                                    SampleFiles(fk[1], boxes))] :
          boxes \in [1..Len(FamilyCameras(fk[1])) -> BoxKinds],
          ignore \in {<<>>, <<0>>, <<1, 0>>},
          processed \in BOOLEAN, present \in BOOLEAN} :
      fk \in FamilyKinds}

InitSample == Start(SampleScenarios)

SpecSample == InitSample /\ [][NextIndex]_vars

\* ---- evaluate on small test splits
MaxEvalRows == 2

NoTransfer == <<FALSE, FALSE>>

\* Index arrays: a subset of the row positions of the dataset, in some order.
EvaluateIdx(ds) ==
    {q \in SeqsUpTo(Range(DatasetLen(ds)), DatasetLen(ds)) :
        \A i, j \in 1..Len(q) : i # j => q[i] # q[j]}

EvaluateCall(predicted, joints, idx, flags, per_pose_error) ==
    [keypoints_3d_predicted |-> predicted, pred_joints |-> joints, idx |-> idx,
     transfer_cmu_to_human36m |-> flags[1], transfer_human36m_to_human36m |-> flags[2],
     per_pose_error |-> per_pose_error]

\* evaluate(keypoints_3d_predicted, idx, ...) with one predicted pose, of 17
\* joints or of as many as the ground truth has, per entry of idx.
Called(o, outcome) ==
    /\ evalargs' = Some(o)
    /\ error' = outcome.err
    /\ result' = outcome.val
    /\ UNCHANGED <<args, file, disk, pc, self, indices, sample, getidx, script>>

\* evaluate leaves the dataset as it is: one call per behaviour shows every
\* outcome it has.
Evaluate ==
    /\ pc = "ready"
    /\ evalargs = None
    /\ \E idx \in EvaluateIdx(self[1]) :
       \E so \in [1..Len(idx) -> PoseIds], joints \in {17, GtJoints(self[1])},
          flags \in {NoTransfer, <<TRUE, FALSE>>, <<FALSE, TRUE>>} :
         Called(EvaluateCall([i \in 1..Len(idx) |->
                                 Prefix(Pose(so[i][1], so[i][2]), joints)],
                             joints, idx, flags, <<>>),
                EvaluateOutcome(self[1],
                    EvaluateCall([i \in 1..Len(idx) |->
                                     Prefix(Pose(so[i][1], so[i][2]), joints)],
                                 joints, idx, flags, <<>>)))

EvalScenarios ==
    {[a |-> SplitArgs("human36m", FALSE, TRUE, 1, FALSE), f |-> H36MFile(pairs), d |-> {}] :
        pairs \in SeqsUpTo(H36MRowKinds, MaxEvalRows)}
    \cup
    {[a |-> SplitArgs(kind, FALSE, TRUE, 1, FALSE), f |-> OtherFile(pairs), d |-> {}] :
        kind \in {"humaneva", "totalcap", "mpi3d", "ama"},
        pairs \in SeqsUpTo(OtherRowKinds, MaxEvalRows)}

InitEval == Start(EvalScenarios)

NextEval == Construct \/ Evaluate

SpecEval == InitEval /\ [][NextEval]_vars

\* ---- evaluate_using_per_pose_error on given per-pose errors
MaxAggRows == 3

AggSubjects == <<"S1", "S2">>
AggActions == << <<"Foo", "-", "1">>, <<"Foo", "-", "2">>, <<"Bar">> >>
\* A name table with a first trial that has no second trial.
LoneTrialActions == << <<"Foo", "-", "1">>, <<"Bar">> >>

AggRowKinds ==
    { <<"S1", <<"Foo", "-", "1">> >>, <<"S1", <<"Foo", "-", "2">> >>,
      <<"S2", <<"Foo", "-", "1">> >>, <<"S1", <<"Bar">> >> }

AggFile(action_names, pairs) ==
    LabelsFile(OtherCameras, AggSubjects, action_names,
               MkTable(AggSubjects, action_names, Len(OtherCameras), pairs))

ErrorValues == {<<2, 1>>, <<4, 1>>, <<6, 1>>}

\* A direct call returns subject_scores alone.
DirectReturn(per_pose_error, outcome) ==
    IF outcome.err # NoError THEN outcome
    ELSE Returned([score |-> None,
                   result |-> [per_pose_error |-> outcome.val[1],
                               per_pose_error_relative |-> outcome.val[1]],
                   per_pose_error |-> per_pose_error,
                   per_pose_error_relative |-> per_pose_error])

EvaluateUsingPerPoseError ==
    /\ pc = "ready"
    /\ evalargs = None
    /\ \E per_pose_error \in SeqsUpTo(ErrorValues, DatasetLen(self[1])) :
         Called(EvaluateCall(<<>>, 0, <<>>, NoTransfer, per_pose_error),
                DirectReturn(per_pose_error,
                    EvaluateUsingPerPoseErrorOutcome(self[1], per_pose_error)))

AggScenarios ==
    {[a |-> SplitArgs("mpi3d", FALSE, TRUE, 1, FALSE), f |-> AggFile(AggActions, pairs),
      d |-> {}] : pairs \in SeqsUpTo(AggRowKinds, MaxAggRows)}
    \cup
    {[a |-> SplitArgs("mpi3d", FALSE, TRUE, 1, FALSE),
      f |-> AggFile(LoneTrialActions, pairs), d |-> {}] :
        pairs \in SeqsUpTo({<<"S1", <<"Foo", "-", "1">> >>, <<"S2", <<"Bar">> >>},
                           MaxAggRows)}

InitAgg == Start(AggScenarios)

NextAgg == Construct \/ EvaluateUsingPerPoseError

SpecAgg == InitAgg /\ [][NextAgg]_vars

\* ------------------------------------------------------ collect-bboxes.py
\* The script's process: the main thread (pc), the pool's task queue, its
\* workers, its result queue and the result-handler thread that runs the
\* callbacks.
MaxProcesses == 2
MaxFailures == 2

\* Line 91.
Cameras == <<"54138969", "55011271", "58860488", "60457274">>

\* Bbox masks, as rows of pixels.
FullMask == << <<1, 1, 1>>, <<1, 1, 1>>, <<1, 1, 1>> >>
DotMask == << <<0, 0, 0>>, <<0, 1, 0>>, <<0, 0, 0>> >>

\* np.argmax: the first position (from 0) of the largest entry.
Argmax(xs) ==
    (CHOOSE k \in 1..Len(xs) :
        /\ \A m \in 1..Len(xs) : xs[m] <= xs[k]
        /\ \A m \in 1..(k - 1) : xs[m] < xs[k]) - 1

Reversed(xs) == [k \in 1..Len(xs) |-> xs[Len(xs) + 1 - k]]

MaxBit(bits) == IF \E b \in bits : b = 1 THEN 1 ELSE 0

\* Lines 29-39.
MaskToBbox(mask) ==
    LET h_mask == [c \in 1..Len(mask[1]) |-> MaxBit({mask[r][c] : r \in 1..Len(mask)})]
        w_mask == [r \in 1..Len(mask) |-> MaxBit({mask[r][c] : c \in 1..Len(mask[1])})]
    IN  <<Argmax(h_mask), Argmax(w_mask),
          Len(h_mask) - Argmax(Reversed(h_mask)), Len(w_mask) - Argmax(Reversed(w_mask))>>

\* action_to_bbox_filename[subject][action], or None for a KeyError.
ActionToBboxFilename(subject, action) ==
    IF subject = "S1" /\ action = <<"TakingPhoto", "-", "1">>
    THEN Some(<<"Photo", " ", "1">>) ELSE None

\* Lines 42-45.
CorrectedAction(subject, action) ==
    IF ActionToBboxFilename(subject, action) # None
    THEN ActionToBboxFilename(subject, action)[1]
    ELSE [k \in 1..Len(action) |-> IF action[k] = "-" THEN " " ELSE action[k]]

\* Lines 48-53.
BboxesPath(dataset_path, job) ==
    <<dataset_path, job[1], "MySegmentsMat", "ground_truth_bb",
      CorrectedAction(job[1], job[2]), job[3]>>

\* Line 62, for the box of one frame.
TooSmall(bbox) == bbox[4] - bbox[2] < 2 \/ bbox[3] - bbox[1] < 2

\* load_bboxes(dataset_path, subject, action, camera) on the masks of its
\* file, None when the file cannot be opened: the exception with the job's
\* name (lines 64-66), or the tuple of line 68.
LoadBboxes(dataset_path, job, masks) ==
    IF masks = None
    THEN [ok |-> FALSE,
          value |-> <<"Exception", <<"OSError", BboxesPath(dataset_path, job)>>, job>>]
    ELSE IF \E f \in 1..Len(masks[1]) : TooSmall(MaskToBbox(masks[1][f]))
    THEN [ok |-> FALSE,
          value |-> <<"Exception",
                      <<BboxesPath(dataset_path, job), "$",
                        (CHOOSE f \in 1..Len(masks[1]) :
                            /\ TooSmall(MaskToBbox(masks[1][f]))
                            /\ \A g \in 1..(f - 1) : ~TooSmall(MaskToBbox(masks[1][g]))) - 1>>,
                      job>>]
    ELSE [ok |-> TRUE,
          value |-> <<[f \in 1..Len(masks[1]) |-> MaskToBbox(masks[1][f])],
                      job[1], job[2], job[3]>>]

\* A nested defaultdict: absent keys read as an empty mapping.
Nested(d, key) == IF key \in DOMAIN d THEN d[key] ELSE << >>

\* The callback with the camera level left out of the key.
AddResultToRetval_NoCamera(bboxes_retval, res) ==
    DictSet(bboxes_retval, res[2], DictSet(Nested(bboxes_retval, res[2]), res[3], res[1]))

\* Lines 72-74: bboxes_retval[subject][action][camera] = bboxes
AddResultToRetval(bboxes_retval, res) ==
    DictSet(bboxes_retval, res[2],
        DictSet(Nested(bboxes_retval, res[2]), res[3],
            DictSet(Nested(Nested(bboxes_retval, res[2]), res[3]), res[4], res[1])))

RECURSIVE Flatten(_)
Flatten(seqs) == IF seqs = <<>> THEN <<>> ELSE Head(seqs) \o Flatten(Tail(seqs))

\* Lines 82-93: the jobs in the order they are submitted, for a listing of
\* <<subject, entries of its directory>> pairs.
Jobs(listing) ==
    Flatten([i \in 1..Len(listing) |->
        Flatten([a \in 1..Len(SelectSeq(listing[i][2], LAMBDA e : e # <<"MySegmentsMat">>)) |->
            [c \in 1..Len(Cameras) |->
                <<listing[i][1],
                  SelectSeq(listing[i][2], LAMBDA e : e # <<"MySegmentsMat">>)[a],
                  Cameras[c]>>]])])

\* The outcome of job j of the run.
Outcome(s, j) == LoadBboxes(s.dataset_path, s.jobs[j], s.files[j])

\* Lines 94-98: the main thread submits the next job.
Submit ==
    /\ script # None
    /\ script[1].pc = "submit"
    /\ Len(script[1].async_errors) < Len(script[1].jobs)
    /\ script' = Some([script[1] EXCEPT
                          !.async_errors = Append(@, Len(@) + 1),
                          !.taskqueue = Append(@, Len(script[1].async_errors) + 1)])
    /\ UNCHANGED <<args, file, disk, pc, error, self, indices, sample, getidx, evalargs, result>>

\* Line 100.
Close ==
    /\ script # None
    /\ script[1].pc = "submit"
    /\ Len(script[1].async_errors) = Len(script[1].jobs)
    /\ script' = Some([script[1] EXCEPT !.pc = "closed"])
    /\ UNCHANGED <<args, file, disk, pc, error, self, indices, sample, getidx, evalargs, result>>

\* A free worker takes the oldest task of the queue.
WorkerTakes ==
    /\ script # None
    /\ script[1].taskqueue # <<>>
    /\ Cardinality(script[1].running) < script[1].num_processes
    /\ script' = Some([script[1] EXCEPT
                          !.taskqueue = Tail(@),
                          !.running = @ \cup {Head(script[1].taskqueue)}])
    /\ UNCHANGED <<args, file, disk, pc, error, self, indices, sample, getidx, evalargs, result>>

\* A worker finishes load_bboxes, in any order, and queues the outcome;
\* `finished` keeps the order in which the jobs finished.
WorkerFinishes ==
    /\ script # None
    /\ \E j \in script[1].running :
         script' = Some([script[1] EXCEPT
                            !.running = @ \ {j},
                            !.finished = Append(@, j),
                            !.outqueue = Append(@, j)])
    /\ UNCHANGED <<args, file, disk, pc, error, self, indices, sample, getidx, evalargs, result>>

\* The result handler takes the oldest outcome: the callback runs for a
\* success, and the job's AsyncResult becomes ready.
HandleResult ==
    /\ script # None
    /\ script[1].outqueue # <<>>
    /\ script' = Some([script[1] EXCEPT
                          !.outqueue = Tail(@),
                          !.ready = @ \cup {Head(script[1].outqueue)},
                          !.bboxes_retval =
                              IF Outcome(script[1], Head(script[1].outqueue)).ok
                              THEN AddResultToRetval(@,
                                       Outcome(script[1], Head(script[1].outqueue)).value)
                              ELSE @])
    /\ UNCHANGED <<args, file, disk, pc, error, self, indices, sample, getidx, evalargs, result>>

\* pool.join() returning at once, whatever is still running.
JoinReturns_NoWait(s) == TRUE

\* Line 101: pool.join() returns when the workers and the result handler
\* have finished all that was submitted.
JoinReturns(s) == s.ready = {j : j \in 1..Len(s.jobs)}

Join ==
    /\ script # None
    /\ script[1].pc = "closed"
    /\ JoinReturns(script[1])
    /\ script' = Some([script[1] EXCEPT !.pc = "get"])
    /\ UNCHANGED <<args, file, disk, pc, error, self, indices, sample, getidx, evalargs, result>>

\* Lines 104-105: async_result.get() of the next job raises its exception or
\* returns; get() of a job that is not ready waits.
Get ==
    /\ script # None
    /\ script[1].pc = "get"
    /\ script[1].got < Len(script[1].async_errors)
    /\ script[1].async_errors[script[1].got + 1] \in script[1].ready
    /\ script' = Some(
         IF Outcome(script[1], script[1].async_errors[script[1].got + 1]).ok
         THEN [script[1] EXCEPT !.got = @ + 1]
         ELSE [script[1] EXCEPT
                  !.pc = "raised",
                  !.exception =
                      Some(Outcome(script[1], script[1].async_errors[script[1].got + 1]).value)])
    /\ UNCHANGED <<args, file, disk, pc, error, self, indices, sample, getidx, evalargs, result>>

\* Lines 108-117: the mapping, frozen, is saved.
Save ==
    /\ script # None
    /\ script[1].pc = "get"
    /\ script[1].got = Len(script[1].async_errors)
    /\ script' = Some([script[1] EXCEPT !.pc = "saved",
                                        !.output = Some(script[1].bboxes_retval)])
    /\ UNCHANGED <<args, file, disk, pc, error, self, indices, sample, getidx, evalargs, result>>

\* Directory listings: one subject with one action, without and with the
\* folder of the bbox files.
Listings ==
    { << <<"S1", << <<"Walking", "-", "1">> >> >> >>,
      << <<"S1", << <<"MySegmentsMat">>, <<"TakingPhoto", "-", "1">> >> >> >> }

GoodFile == Some(<<FullMask, FullMask>>)
BadFiles == {None, Some(<<FullMask, DotMask>>)}

\* The script started on a listing, with at most MaxFailures files that
\* are missing or hold a mask that is too small.
ScriptRuns ==
    {[pc |-> "submit", dataset_path |-> "h36m", jobs |-> Jobs(listing), files |-> files,
      num_processes |-> n, async_errors |-> <<>>, taskqueue |-> <<>>, running |-> {},
      outqueue |-> <<>>, finished |-> <<>>, ready |-> {}, bboxes_retval |-> << >>, got |-> 0,
      exception |-> None, output |-> None] :
        listing \in Listings, n \in 1..MaxProcesses,
        files \in {f \in [1..Len(Cameras) -> {GoodFile} \cup BadFiles] :
                      Cardinality({j \in 1..Len(Cameras) : f[j] # GoodFile}) <= MaxFailures}}

InitScript ==
    /\ \E run \in ScriptRuns : script = Some(run)
    /\ args = DefaultArgs
    /\ file = H36MFile(<<>>)
    /\ disk = {}
    /\ pc = "new"
    /\ error = NoError
    /\ self = None
    /\ indices = <<>>
    /\ sample = None
    /\ getidx = None
    /\ evalargs = None
    /\ result = None

NextScript ==
    Submit \/ Close \/ WorkerTakes \/ WorkerFinishes \/ HandleResult \/ Join \/ Get \/ Save

SpecScript == InitScript /\ [][NextScript]_vars

\* ------------------------------------------------------------ properties
\* What the properties say of a table, stated without the operators of the
\* construction: the rows a predicate keeps, and every n-th element of a
\* sequence counted from its first.
PositionsWhere(table, Keep(_)) ==
    SelectSeq([k \in 1..Len(table) |-> k - 1], LAMBDA i : Keep(At(table, i)))

EveryNth(s, n) ==
    [k \in 1..Cardinality({p \in 1..Len(s) : (p - 1) % n = 0}) |-> s[(k - 1) * n + 1]]

SetOf(s) == {s[k] : k \in 1..Len(s)}

SubjectName(r) == At(file.subject_names, r.subject_idx)
ActionName(r) == At(file.action_names, r.action_idx)

IsTrainRow(r) == SubjectName(r) \in SetOf(TrainSubjectNames(args.kind))
IsTestRow(r) == SubjectName(r) \in SetOf(TestSubjectNames(args.kind))
IsDamagedRow(r) == SubjectName(r) = "S9" /\ ActionName(r) \in SetOf(DamagedActions)
IsKeptTestRow(r) ==
    IsTestRow(r)
    /\ ~(args.kind = "human36m" /\ ~args.with_damaged_actions /\ IsDamagedRow(r))

Built == pc = "ready" /\ args.kind # "ama"

\* The positions (in the loaded table) C1 expects the dataset to hold, for
\* the test rows TestRow(_) counts.
ExpectedPositions(TestRow(_)) ==
    (IF args.train THEN EveryNth(PositionsWhere(file.table, IsTrainRow), TrainStride)
     ELSE <<>>)
    \o (IF args.test
        THEN EveryNth(PositionsWhere(file.table, TestRow), args.retain_every_n_frames_in_test)
        ELSE <<>>)

RequestedSubjects ==
    (IF args.train THEN SetOf(TrainSubjectNames(args.kind)) ELSE {})
    \cup (IF args.test THEN SetOf(TestSubjectNames(args.kind)) ELSE {})

\* The parts of C1 that do not depend on which test rows are counted.
C1_LenSubjectsIndex ==
    /\ Built =>
          /\ \A k \in 1..DatasetLen(self[1]) :
                 At(self[1].labels.subject_names, self[1].labels.table[k].subject_idx)
                     \in RequestedSubjects
    /\ (pc = "ready" /\ sample # None) =>
          /\ sample[1].indexes = getidx[1]
          /\ getidx[1] \in Range(DatasetLen(self[1]))

\* C1 as stated: after construction with a kind other than 'ama' the table
\* is every 4000th train-subject row followed by every retain-th row of ALL
\* the test-subject rows, len(dataset) is their number, no row is of a subject
\* outside the requested splits, and get(i) reports index i.
C1_Original ==
    /\ Built =>
          /\ self[1].labels.table = Take(file.table, ExpectedPositions(IsTestRow))
          /\ DatasetLen(self[1]) = Len(ExpectedPositions(IsTestRow))
    /\ C1_LenSubjectsIndex

\* C1 as amended: the same, the test rows being the test-subject rows that
\* are not, for kind 'human36m' without with_damaged_actions, rows of subject
\* S9 with a damaged action.
C1_FilteredTable ==
    /\ Built =>
          /\ self[1].labels.table = Take(file.table, ExpectedPositions(IsKeptTestRow))
          /\ DatasetLen(self[1]) = Len(ExpectedPositions(IsKeptTestRow))
    /\ C1_LenSubjectsIndex

\* C1's case: both splits requested, the train stride keeps a second row
\* TrainStride rows after the first, a test row is kept, and get returned a
\* sample of a row past the first.
C1_Witness ==
    /\ Built /\ args.train /\ args.test
    /\ Len(indices[1]) = 2 /\ indices[1][2] = TrainStride
    /\ Len(indices[2]) >= 1
    /\ sample # None /\ sample[1].indexes >= 1

\* C2: whenever a test selection is made, with with_damaged_actions false it
\* holds no row of subject S9 with a damaged action, and with
\* with_damaged_actions true it is every retain-th of all the test-subject
\* rows, damaged or not.
C2_DamagedExcluded ==
    (Built /\ args.test) =>
        LET test_selection == indices[Len(indices)] IN
        /\ ~args.with_damaged_actions =>
               \A k \in 1..Len(test_selection) :
                   ~IsDamagedRow(At(file.table, test_selection[k]))
        /\ args.with_damaged_actions =>
               test_selection = EveryNth(PositionsWhere(file.table, IsTestRow),
                                         args.retain_every_n_frames_in_test)

\* C2's case: the principal kind, exclusion not overridden, a damaged S9 row
\* in the loaded table next to test rows that are selected.
C2_Witness ==
    /\ Built /\ args.test /\ args.kind = "human36m" /\ ~args.with_damaged_actions
    /\ \E k \in 1..Len(file.table) : IsDamagedRow(file.table[k])
    /\ Len(indices[Len(indices)]) >= 1

\* An otherwise valid configuration: a split is requested, no camera index is
\* out of range, no predictions file, and the labels hold the names the
\* kind's branch looks up.
ValidConfig ==
    /\ CheckSplit(args)
    /\ CheckIgnoreCameras(args, file)
    /\ args.pred_results = None
    /\ SubjectsBound(args.kind) =>
          /\ AllFound(file.subject_names, TrainSubjectNames(args.kind))
          /\ AllFound(file.subject_names, TestSubjectNames(args.kind))
          /\ AllFound(file.action_names, DamagedActions)

\* C4 as stated: for every supported kind an otherwise valid construction
\* completes, with 16 keypoints for mpii, 20 for humaneva, 21 for totalcap,
\* 28 for mpi3d and 17 for human36m and ama.
C4_Original ==
    (pc # "new" /\ args.kind \in SupportedKinds /\ ValidConfig) =>
        /\ pc = "ready"
        /\ self[1].num_keypoints =
              (CASE args.kind = "mpii" -> 16
                 [] args.kind = "humaneva" -> 20
                 [] args.kind = "totalcap" -> 21
                 [] args.kind = "mpi3d" -> 28
                 [] args.kind \in {"human36m", "ama"} -> 17)

\* C3: a construction that was asked for no split, for a kind outside the six
\* supported ones, or with a camera index outside [0, number of cameras) has
\* failed; a constructed dataset with a predictions file holds as many
\* aligned predictions (every retain-th of the file's) as it has rows; and a
\* failed construction leaves no dataset object.
C3_ConfigErrorsFatal ==
    /\ (pc # "new" /\ ~(args.train \/ args.test)) => pc = "failed"
    /\ (pc # "new" /\ args.kind \notin
            {"mpii", "human36m", "humaneva", "ama", "totalcap", "mpi3d"}) => pc = "failed"
    /\ (pc # "new" /\ \E k \in 1..Len(args.ignore_cameras) :
            ~(0 <= args.ignore_cameras[k]
              /\ args.ignore_cameras[k] < Len(file.camera_names))) => pc = "failed"
    /\ (pc = "ready" /\ args.pred_results # None) =>
            Cardinality({p \in 1..Len(args.pred_results[1].keypoints_3d) :
                            (p - 1) % args.retain_every_n_frames_in_test = 0})
                = DatasetLen(self[1])
    /\ pc = "failed" => self = None /\ error # NoError

\* C3's case: the construction got as far as the predictions and failed on
\* their count.
C3_Witness ==
    /\ pc = "failed" /\ error = <<"AssertionError", 159>>
    /\ args.pred_results # None /\ self = None

\* keypoints reordered by the permutation p.
Reordered(pred, p) == [k \in 1..Len(p) |-> At(pred.keypoints_3d, p[k])]

\* The permutations that put `indexes` in ascending order.
SortingPermutations(indexes) ==
    {p \in [1..Len(indexes) -> Range(Len(indexes))] :
        /\ \A i, j \in 1..Len(indexes) : i < j =>
               /\ p[i] # p[j]
               /\ At(indexes, p[i]) <= At(indexes, p[j])}

\* C5: with a predictions file, a constructed dataset stores the file's
\* keypoints_3d put in ascending order of `indexes` and then every retain-th
\* of them, as many as the dataset has rows; indexes [2, 0, 1] of [A, B, C]
\* give [B, C, A] before the decimation; and get(i) attaches stored entry i.
C5_PredictionsAligned ==
    (pc = "ready" /\ args.pred_results # None) =>
        LET pred == args.pred_results[1]
            stored == self[1].keypoints_3d_pred[1]
        IN  /\ \E p \in SortingPermutations(pred.indexes) :
                   stored = EveryNth(Reordered(pred, p), args.retain_every_n_frames_in_test)
            /\ pred.indexes = <<2, 0, 1>> =>
                   stored = EveryNth(<<pred.keypoints_3d[2], pred.keypoints_3d[3],
                                       pred.keypoints_3d[1]>>,
                                     args.retain_every_n_frames_in_test)
            /\ Len(stored) = DatasetLen(self[1])
            /\ sample # None =>
                   sample[1].pred_keypoints_3d = Some(At(stored, getidx[1]))

\* C5's case: indexes [2, 0, 1], a stride of 2, and get(1) returned the
\* second stored prediction, which is the file's first.
C5_Witness ==
    /\ pc = "ready" /\ args.pred_results # None
    /\ args.pred_results[1].indexes = <<2, 0, 1>>
    /\ args.retain_every_n_frames_in_test = 2
    /\ sample # None /\ getidx = Some(1)
    /\ sample[1].pred_keypoints_3d = Some(args.pred_results[1].keypoints_3d[1])

\* The cameras C6 counts for a row: those not ignored whose box has a
\* non-zero height (bottom minus top), in camera-table order.
C6_ExpectedCameras(row) ==
    SelectSeq([k \in 1..Len(file.camera_names) |-> k - 1],
              LAMBDA c : /\ c \notin SetOf(args.ignore_cameras)
                         /\ At(row.bbox_by_camera_tlbr, c)[3]
                                - At(row.bbox_by_camera_tlbr, c)[1] # 0)

\* C6 as stated: every returned sample has images, detections, cameras and
\* proj_matrices of one length, that of the configured cameras less the
\* ignored ones and less those whose box has bottom - top = 0 (these are
\* skipped), in camera-table order.
C6_Original ==
    (pc = "ready" /\ sample # None) =>
        LET row == At(self[1].labels.table, getidx[1])
            expected == C6_ExpectedCameras(row)
        IN  /\ Len(sample[1].images) = Len(expected)
            /\ Len(sample[1].detections) = Len(expected)
            /\ Len(sample[1].cameras) = Len(expected)
            /\ Len(sample[1].proj_matrices) = Len(expected)
            /\ \A k \in 1..Len(sample[1].cameras) :
                   k <= Len(expected) =>
                       sample[1].cameras[k].name = At(file.camera_names, expected[k])

\* ---- evaluate
Evaluated == pc = "ready" /\ evalargs # None

\* The call was evaluate(...) and not evaluate_using_per_pose_error(...).
EvaluateCalled == Evaluated /\ evalargs[1].per_pose_error = <<>>

IsZero(errors) == \A i \in 1..Len(errors) : errors[i] = Zero

\* The predicted array is the dataset's ground truth, the index is the
\* identity and no transfer is asked for.
RoundTrip ==
    /\ EvaluateCalled
    /\ ~Transfer(evalargs[1])
    /\ evalargs[1].idx = [k \in 1..DatasetLen(self[1]) |-> k - 1]
    /\ Len(evalargs[1].keypoints_3d_predicted) = DatasetLen(self[1])
    /\ evalargs[1].pred_joints = GtJoints(self[1])
    /\ \A k \in 1..DatasetLen(self[1]) :
           evalargs[1].keypoints_3d_predicted[k] = KeypointsGt(self[1], k)

\* Every action name that ends in -1 has its -2 in the action-name table.
TrialsComplete(ds) ==
    \A k \in 1..Len(ds.labels.action_names) :
        EndsWithTrial1(ds.labels.action_names[k]) =>
            Contains(ds.labels.action_names,
                     TrialName(SubSeq(ds.labels.action_names[k], 1,
                                      Len(ds.labels.action_names[k]) - 2), 2))

\* The key a row's action is reported under: the base name for a trial.
ActionKey(ds, row) ==
    LET name == At(ds.labels.action_names, row.action_idx)
        base == SubSeq(name, 1, Len(name) - 2)
    IN  IF /\ Len(name) >= 2
           /\ name[Len(name) - 1] = "-"
           /\ name[Len(name)] \in {"1", "2"}
           /\ Contains(ds.labels.action_names, TrialName(base, 1))
        THEN base ELSE name

RowMatches(ds, row, subject, action) ==
    /\ subject = "Average" \/ At(ds.labels.subject_names, row.subject_idx) = subject
    /\ action = <<"Average">> \/ ActionKey(ds, row) = action

\* sum / count of errors[i] over the poses i whose row rows[i] is of the
\* subject and the action.
WeightedMean(ds, errors, rows, subject, action) ==
    LET kept == SelectSeq([i \in 1..Len(errors) |-> i],
                          LAMBDA i : RowMatches(ds, rows[i], subject, action))
    IN  FracDiv(FracSum([k \in 1..Len(kept) |-> errors[kept[k]]]), Len(kept))

BreakdownIs(ds, scores, errors, rows) ==
    \A subject \in DOMAIN scores : \A action \in DOMAIN scores[subject] :
        scores[subject][action] = WeightedMean(ds, errors, rows, subject, action)

\* C7 as stated: for every kind, evaluate on the dataset's own ground truth
\* with the identity index gives zero absolute and relative error for every
\* pose and zero in every entry of the breakdown.
C7_Original ==
    RoundTrip =>
        /\ result # None
        /\ IsZero(result[1].per_pose_error)
        /\ IsZero(result[1].per_pose_error_relative)
        /\ \A which \in {"per_pose_error", "per_pose_error_relative"} :
           \A subject \in DOMAIN result[1].result[which] :
           \A action \in DOMAIN result[1].result[which][subject] :
               result[1].result[which][subject][action] = Zero

\* C7, amended: for every kind but humaneva, when every first trial of the
\* action-name table has its second trial, evaluate on the dataset's own
\* ground truth with the identity index and no transfer returns, with zero
\* absolute and relative error for every pose, zero in every breakdown entry
\* that covers at least one pose, and NaN in the entries that cover none.
C7_RoundTripZero ==
    (RoundTrip /\ self[1].kind # "humaneva" /\ TrialsComplete(self[1])) =>
        /\ result # None
        /\ IsZero(result[1].per_pose_error)
        /\ IsZero(result[1].per_pose_error_relative)
        /\ Len(result[1].per_pose_error) = DatasetLen(self[1])
        /\ Len(result[1].per_pose_error_relative) = DatasetLen(self[1])
        /\ \A which \in {"per_pose_error", "per_pose_error_relative"} :
           \A subject \in DOMAIN result[1].result[which] :
           \A action \in DOMAIN result[1].result[which][subject] :
               result[1].result[which][subject][action] =
                   IF \E k \in 1..DatasetLen(self[1]) :
                          RowMatches(self[1], self[1].labels.table[k], subject, action)
                   THEN Zero ELSE NaN

C7_Witness ==
    /\ RoundTrip
    /\ self[1].kind = "human36m"
    /\ DatasetLen(self[1]) >= 2
    /\ result # None
    /\ result[1].score = Some(Zero)
    /\ result[1].result["per_pose_error"]["S9"][<<"Walking">>] = Zero

\* The error claimed for predicted pose i: against the row of the full label
\* table at position idx[i], relative to the root joint or not.
C8_Expected(ds, o, i, relative) ==
    LET row == At(file.table, o.idx[i])
        gt == IF Transfer(o)
              THEN JointsAt(Prefix(row.keypoints, ds.num_keypoints), Human36mJoints)
              ELSE Prefix(row.keypoints, ds.num_keypoints)
    IN  IF relative
        THEN PoseError(GtCompared(ds, Relative(gt, RootIndex(ds, o))),
                       PredCompared(ds, Relative(PredTransferred(o, i), RootIndex(ds, o))))
        ELSE PoseError(GtCompared(ds, gt), PredCompared(ds, PredTransferred(o, i)))

\* C8 as stated: whatever subset or order of row positions idx is, predicted
\* pose i is compared with the row of the full, unfiltered label table at
\* position idx[i], for the absolute and for the relative error alike.
C8_Original ==
    (EvaluateCalled /\ result # None) =>
        /\ Len(result[1].per_pose_error) = Len(evalargs[1].idx)
        /\ Len(result[1].per_pose_error_relative) = Len(evalargs[1].idx)
        /\ \A i \in 1..Len(evalargs[1].idx) :
            /\ result[1].per_pose_error[i] = C8_Expected(self[1], evalargs[1], i, FALSE)
            /\ i <= Len(result[1].per_pose_error_relative) =>
                   result[1].per_pose_error_relative[i]
                       = C8_Expected(self[1], evalargs[1], i, TRUE)

\* The rows of the evaluated poses: row idx[i] for pose i.
EvaluatedRows(ds, o) == [i \in 1..Len(o.idx) |-> At(ds.labels.table, o.idx[i])]

\* C9 as stated: for every index subset, every entry of both breakdowns is
\* the sum of the per-pose errors of the evaluated poses whose row has that
\* subject and action, divided by their number, and the scalar evaluate
\* returns is the overall average of the relative error.
C9_Original ==
    (EvaluateCalled /\ result # None) =>
        /\ Len(result[1].per_pose_error_relative) = Len(evalargs[1].idx)
        /\ BreakdownIs(self[1], result[1].result["per_pose_error"],
                       result[1].per_pose_error, EvaluatedRows(self[1], evalargs[1]))
        /\ BreakdownIs(self[1], result[1].result["per_pose_error_relative"],
                       result[1].per_pose_error_relative,
                       EvaluatedRows(self[1], evalargs[1]))
        /\ result[1].score =
               Some(FracDiv(FracSum(result[1].per_pose_error_relative),
                            Len(result[1].per_pose_error_relative)))

\* C10: in what evaluate_using_per_pose_error returns, for every subject key
\* and every base name B with a trial B-1 in the action-name table, the entry
\* B is (sum of the errors of the rows of B-1 and B-2) / (number of these
\* rows), and there is no entry B-1 or B-2.
C10_TrialsMerged ==
    (Evaluated /\ ~EvaluateCalled /\ result # None) =>
        \A subject \in DOMAIN result[1].result["per_pose_error"] :
        \A k \in 1..Len(self[1].labels.action_names) :
            EndsWithTrial1(self[1].labels.action_names[k]) =>
                LET scores == result[1].result["per_pose_error"][subject]
                    B == SubSeq(self[1].labels.action_names[k], 1,
                                Len(self[1].labels.action_names[k]) - 2)
                    rows == SelectSeq(
                        [i \in 1..DatasetLen(self[1]) |-> i],
                        LAMBDA i :
                            /\ subject = "Average"
                               \/ At(self[1].labels.subject_names,
                                     self[1].labels.table[i].subject_idx) = subject
                            /\ At(self[1].labels.action_names,
                                  self[1].labels.table[i].action_idx)
                                   \in {TrialName(B, 1), TrialName(B, 2)})
                IN  /\ Len(evalargs[1].per_pose_error) = DatasetLen(self[1])
                    /\ B \in DOMAIN scores
                    /\ scores[B] = FracDiv(FracSum([r \in 1..Len(rows) |->
                                               evalargs[1].per_pose_error[rows[r]]]),
                                           Len(rows))
                    /\ TrialName(B, 1) \notin DOMAIN scores
                    /\ TrialName(B, 2) \notin DOMAIN scores

\* Foo-1 with errors [2, 4] and Foo-2 with [6] give Foo = 4.
C10_Witness ==
    /\ Evaluated /\ ~EvaluateCalled /\ result # None
    /\ evalargs[1].per_pose_error = << <<2, 1>>, <<4, 1>>, <<6, 1>> >>
    /\ [k \in 1..DatasetLen(self[1]) |->
           At(self[1].labels.action_names, self[1].labels.table[k].action_idx)]
         = << <<"Foo", "-", "1">>, <<"Foo", "-", "1">>, <<"Foo", "-", "2">> >>
    /\ result[1].result["per_pose_error"]["Average"][<<"Foo">>] = <<4, 1>>
    /\ DOMAIN result[1].result["per_pose_error"]["Average"]
         = {<<"Average">>, <<"Foo">>, <<"Bar">>}

\* ---- collect-bboxes.py
AllJobs(s) == {j : j \in 1..Len(s.jobs)}
FailedJobs(s) == {j \in AllJobs(s) : ~Outcome(s, j).ok}

\* The mapping with one entry per job, under its subject, action and camera.
ExpectedRetval(s) ==
    [subject \in {s.jobs[j][1] : j \in AllJobs(s)} |->
        [action \in {s.jobs[j][2] : j \in {i \in AllJobs(s) : s.jobs[i][1] = subject}} |->
            [camera \in {s.jobs[j][3] : j \in {i \in AllJobs(s) :
                            s.jobs[i][1] = subject /\ s.jobs[i][2] = action}} |->
                Outcome(s, CHOOSE j \in AllJobs(s) :
                               s.jobs[j] = <<subject, action, camera>>).value[1]]]]

\* The number of (subject, action, camera) entries of a nested mapping.
Entries(d) ==
    IntSum([j \in 1..Len(script[1].jobs) |->
        IF /\ script[1].jobs[j][1] \in DOMAIN d
           /\ script[1].jobs[j][2] \in DOMAIN d[script[1].jobs[j][1]]
           /\ script[1].jobs[j][3] \in DOMAIN d[script[1].jobs[j][1]][script[1].jobs[j][2]]
        THEN 1 ELSE 0])

\* C11: whatever order the workers finish in, a run whose jobs all succeed
\* saves the mapping with exactly one entry per job, keyed by subject, action
\* and camera and holding that job's boxes, and a run with failing jobs
\* raises the exception of the first failing job in submission order.
C11_OrderIndependent ==
    script # None =>
        /\ script[1].pc = "saved" =>
               /\ FailedJobs(script[1]) = {}
               /\ script[1].output = Some(ExpectedRetval(script[1]))
               /\ Entries(script[1].output[1]) = Len(script[1].jobs)
        /\ script[1].pc = "raised" =>
               /\ FailedJobs(script[1]) # {}
               /\ script[1].exception =
                      Some(Outcome(script[1],
                                   CHOOSE j \in FailedJobs(script[1]) :
                                       \A i \in FailedJobs(script[1]) : j <= i).value)
        /\ script[1].pc \notin {"saved", "raised"} =>
               script[1].exception = None /\ script[1].output = None

\* Two jobs fail, the later submitted one finishes first, and the exception
\* raised is the earlier one's.
C11_Witness ==
    /\ script # None
    /\ script[1].pc = "raised"
    /\ \E i, j \in FailedJobs(script[1]) :
         /\ i < j
         /\ \A k \in FailedJobs(script[1]) : i <= k
         /\ Index(script[1].finished, j) < Index(script[1].finished, i)
         /\ script[1].exception = Some(Outcome(script[1], i).value)
         /\ Outcome(script[1], i).value # Outcome(script[1], j).value

\* C12: an exception is raised only once the pool is closed and every job has
\* finished and been handled, and then no output is written; the output is
\* written only when every job succeeded and its result is in the mapping.
C12_RaiseAfterJoinNoOutput ==
    script # None =>
        /\ script[1].exception # None =>
               /\ script[1].pc = "raised"
               /\ Len(script[1].async_errors) = Len(script[1].jobs)
               /\ script[1].ready = AllJobs(script[1])
               /\ script[1].running = {}
               /\ script[1].taskqueue = <<>>
               /\ script[1].outqueue = <<>>
               /\ script[1].output = None
        /\ script[1].output # None =>
               /\ script[1].exception = None
               /\ script[1].ready = AllJobs(script[1])
               /\ \A j \in AllJobs(script[1]) :
                    /\ Outcome(script[1], j).ok
                    /\ script[1].output[1][script[1].jobs[j][1]][script[1].jobs[j][2]]
                           [script[1].jobs[j][3]] = Outcome(script[1], j).value[1]

\* A job has failed and the results of the others are in the mapping, yet
\* nothing was written.
C12_Witness ==
    /\ script # None
    /\ script[1].pc = "raised"
    /\ script[1].output = None
    /\ script[1].bboxes_retval # << >>
    /\ Cardinality(FailedJobs(script[1])) = 1
    /\ script[1].ready = AllJobs(script[1])

====
